---- MODULE Spec2Model ----
(***************************************************************************)
(* Conversation-bound workflow execution engine of v2-b.                   *)
(*                                                                         *)
(*   RedisLock               src/src/lib/redisLock.ts                      *)
(*   WorkflowStateManager    src/unnamed/part_012 (lib/workflowStateManager)*)
(*   workflow executor       src/src/services/workflowExecutor.service.ts  *)
(*                                                                         *)
(*   WorkflowLoopDetector    src/unnamed/part_013 (lib/workflowLoopDetector)*)
(*   executeWorkflow         src/src/services/workflow.service.ts          *)
(*   executeActionApiCall    src/src/services/workflow.executors.ts        *)
(*   CircuitBreaker          src/unnamed/part_011 (lib/circuitBreaker)     *)
(*                                                                         *)
(* Specifications:                                                         *)
(*   LockSpec    withLock callers of one resource, the store may fail and  *)
(*               the key may lapse by its TTL;                             *)
(*   Spec        initialize / handleMessageInWorkflow calls and the bursts *)
(*               (processNextNode chains) they start, for one conversation;*)
(*   FlowSpec    one initialize call and its chain on a cyclic workflow,   *)
(*               on one with a node of unknown type or without entry node; *)
(*   StopSpec    initialize, handleMessageInWorkflow and stop calls;       *)
(*   EndSpec     handleMessageInWorkflow calls on a suspended run when     *)
(*               sendMessageToUser can fail;                               *)
(*   ApiSpec     one ACTION_API_CALL node, in either engine;               *)
(*   BreakerSpec concurrent execute calls on one CircuitBreaker;           *)
(*   RouterSpec  findNextNode over bounded edge lists;                     *)
(*   GuardSpec   visitNode calls on one WorkflowLoopDetector;              *)
(*   RunSpec     one executeWorkflow call of services/workflow.service.ts  *)
(*               on a node with a retry/timeout configuration.             *)
(* Every action is one awaited I/O operation of the code together with the *)
(* synchronous code that follows it up to the next await.                  *)
(* Store errors (a Redis command throwing) are part of LockSpec; elsewhere *)
(* the store answers every command.  addExecutionLog only rewrites the     *)
(* logs column of the execution row and is left out of the state.          *)
(***************************************************************************)
EXTENDS Integers, Sequences, FiniteSets, TLC

\* ------------------------------------------------------------------ bounds
\* withLock calls started in LockSpec
MaxLockCalls == 2
\* initialize + handleMessageInWorkflow calls started in Spec
MaxCalls == 2
\* edges of the workflows RouterSpec routes over
MaxEdges == 3
\* findNextNode calls on one workflow and one variables map in RouterSpec
MaxRouteCalls == 2
\* executeNode calls per node id by the chains of one conversation
MaxDispatch == 12
\* largest config.maxRetries of RunSpec
MaxRetries == 3
\* largest maxVisitsPerNode of GuardSpec below the default
MaxVisits == 2
\* largest maxTotalNodes of GuardSpec below the default
MaxNodeLimit == 3
\* stopWorkflowForConversation calls in StopSpec
MaxStops == 1
\* execute calls on the circuit breaker of BreakerSpec
MaxBreakerCalls == 3
\* largest failureThreshold and successThreshold of BreakerSpec
MaxThreshold == 2

\* --------------------------------------------------------- program constants
\* withLock's default `retries` (redisLock.ts:113)
DefaultRetries == 3
\* withLock's default `waitMs` (redisLock.ts:113)
DefaultWaitMs == 100
\* WorkflowLoopDetector's default maxVisitsPerNode (part_013:22)
DefaultMaxVisitsPerNode == 10
\* WorkflowLoopDetector's default maxTotalNodes (part_013:23)
DefaultMaxTotalNodes == 100
\* executeNode's maxRetries when config.maxRetries is not set (workflow.service.ts:739)
DefaultMaxRetries == 3
\* `retries` handleMessageInWorkflow passes to withLock (workflowExecutor:245)
HandleRetries == 5

\* ------------------------------------------------------------------- state
VARIABLES
    lockKey,     \* value of the Redis key lock:<resource>; NoToken when absent
    lcalls,      \* LockSpec: the withLock calls, by call id
    store,       \* Redis key workflow:state:<conversation>; NoCtx when absent
    execs,       \* workflowExecution rows: executionId -> status
    calls,       \* Spec: the API calls in progress or finished, by call id
    bursts,      \* Spec: the processNextNode chains, by burst id
    dispatched,  \* number of executeNode calls per node id
    sent,        \* number of sendMessageToUser calls per node id
    workflow,    \* the workflow definition prisma.workflow.findFirst returns
    route,       \* RouterSpec: the arguments and the results of findNextNode calls
    guard,       \* GuardSpec: a WorkflowLoopDetector and the visitNode calls on it
    run,         \* RunSpec: an executeWorkflow call of services/workflow.service.ts
    api,         \* ApiSpec: an ACTION_API_CALL node under execution
    breaker,     \* BreakerSpec: a CircuitBreaker and the execute calls on it
    stops        \* StopSpec: the stopWorkflowForConversation calls

\* the state of the specifications of single components
moreVars == <<api, breaker, stops>>

unitVars == <<route, guard, run, moreVars>>

\* the state of the lock and of the conversation engine
coreVars == <<lockKey, lcalls, store, execs, calls, bursts, dispatched, sent, workflow>>

coreVarsButStore == <<lockKey, lcalls, execs, calls, bursts, dispatched, sent, workflow>>

vars == <<lockKey, lcalls, store, execs, calls, bursts, dispatched, sent, workflow, unitVars>>

engineVars == <<store, execs, calls, bursts, dispatched, sent, workflow, unitVars>>

\* a component that takes no part in a specification
Idle == <<>>

MoreIdle ==
    /\ api = Idle
    /\ breaker = Idle
    /\ stops = Idle

NoToken == <<>>
NoCtx == [present |-> FALSE]

\* ------------------------------------------------------------- RedisLock
\* The constructor draws lockValue = nanoid(): a fresh value per RedisLock
\* object.  Each withLock call builds one RedisLock, so the call id stands
\* for its token.
LockValue(callId) == <<callId>>

\* Mutant: acquire answers true when the store call throws.
RedisSetNX_FailOpen(key, token, storeOk) ==
    IF ~storeOk THEN [key |-> key, acquired |-> TRUE, reply |-> "error"]
    ELSE IF key = NoToken THEN [key |-> token, acquired |-> TRUE, reply |-> "OK"]
    ELSE [key |-> key, acquired |-> FALSE, reply |-> "null"]

\* acquire(): redis.set(key, value, 'EX', ttl, 'NX') inside try/catch.
\* reply is what the store answered: "OK", null (key held), or "error" when the
\* call threw (storeOk = FALSE), which the catch turns into false.
RedisSetNX(key, token, storeOk) ==
    IF ~storeOk THEN [key |-> key, acquired |-> FALSE, reply |-> "error"]
    ELSE IF key = NoToken THEN [key |-> token, acquired |-> TRUE, reply |-> "OK"]
    ELSE [key |-> key, acquired |-> FALSE, reply |-> "null"]

\* Mutant: release deletes the key without comparing the token.
RedisEvalRelease_NoCompare(key, token, storeOk) ==
    IF ~storeOk THEN [key |-> key, result |-> "error"]
    ELSE [key |-> NoToken, result |-> "deleted"]

\* release(): the Lua compare-and-delete; a store error is caught and logged.
RedisEvalRelease(key, token, storeOk) ==
    IF ~storeOk THEN [key |-> key, result |-> "error"]
    ELSE IF key = token THEN [key |-> NoToken, result |-> "deleted"]
    ELSE [key |-> key, result |-> "not_owned"]

\* Mutant: release only after a normal return (no try/finally).
PcAfterFn_NoFinally(threw) == IF threw THEN "done" ELSE "release"

\* withLock: try { return await fn() } finally { await lock.release() }
PcAfterFn(threw) == "release"

\* Mutant: when the attempts are used up withLock runs fn all the same.
PcAfterFailedAcquire_RunAnyway(i, retries) ==
    IF i + 1 < retries THEN "acquire" ELSE "fn"

\* withLock's acquisition loop after a failed attempt number i (0-based):
\* wait and try again while i < retries - 1, else throw.
PcAfterFailedAcquire(i, retries) ==
    IF i + 1 < retries THEN "acquire" ELSE "busy"

\* the delays withLock has slept after failed attempt i:
\* setTimeout(resolve, waitMs * (i + 1)) when i < retries - 1
WaitsAfterFailedAcquire(waits, i, retries, waitMs) ==
    IF i < retries - 1 THEN Append(waits, waitMs * (i + 1)) ELSE waits

\* ------------------------------------------------------------ LockSpec
NewLockCall ==
    [pc |-> "acquire", i |-> 0, acquired |-> FALSE,
     released |-> "none", outcome |-> "none",
     attempts |-> 0, waits |-> <<>>, last |-> "none", fnCalls |-> 0]

LStart ==
    /\ Len(lcalls) < MaxLockCalls
    /\ lcalls' = Append(lcalls, NewLockCall)
    /\ UNCHANGED <<lockKey, engineVars>>

LAcquire(k, storeOk) ==
    /\ lcalls[k].pc = "acquire"
    /\ LET r == RedisSetNX(lockKey, LockValue(k), storeOk) IN
       /\ lockKey' = r.key
       /\ lcalls' = [lcalls EXCEPT ![k] =
             IF r.acquired
             THEN [@ EXCEPT !.pc = "fn", !.acquired = TRUE,
                            !.attempts = @ + 1, !.last = r.reply]
             ELSE [@ EXCEPT !.pc = PcAfterFailedAcquire(lcalls[k].i, DefaultRetries),
                            !.i = @ + 1, !.attempts = @ + 1, !.last = r.reply,
                            !.waits = WaitsAfterFailedAcquire(@, lcalls[k].i,
                                          DefaultRetries, DefaultWaitMs)]]
    /\ UNCHANGED engineVars

\* after the loop: if (!acquired) throw new Error('Failed to acquire lock ...')
LBusy(k) ==
    /\ lcalls[k].pc = "busy"
    /\ lcalls' = [lcalls EXCEPT ![k] = [@ EXCEPT !.pc = "done", !.outcome = "busy"]]
    /\ UNCHANGED <<lockKey, engineVars>>

\* fn settles: it returns or it throws
LFnExit(k, threw) ==
    /\ lcalls[k].pc = "fn"
    /\ lcalls' = [lcalls EXCEPT ![k] =
          [@ EXCEPT !.pc = PcAfterFn(threw), !.fnCalls = @ + 1,
                    !.outcome = IF threw THEN "threw" ELSE "returned"]]
    /\ UNCHANGED <<lockKey, engineVars>>

LRelease(k, storeOk) ==
    /\ lcalls[k].pc = "release"
    /\ LET r == RedisEvalRelease(lockKey, LockValue(k), storeOk) IN
       /\ lockKey' = r.key
       /\ lcalls' = [lcalls EXCEPT ![k] = [@ EXCEPT !.pc = "done", !.released = r.result]]
    /\ UNCHANGED engineVars

\* The key was set with EX ttl: Redis drops it when the ttl has elapsed.
\* Nothing in withLock renews it (extend() has no caller).
LockExpire ==
    /\ lockKey # NoToken
    /\ lockKey' = NoToken
    /\ UNCHANGED <<lcalls, engineVars>>

LockInit ==
    /\ lockKey = NoToken
    /\ lcalls = <<>>
    /\ store = NoCtx
    /\ execs = <<>>
    /\ calls = <<>>
    /\ bursts = <<>>
    /\ dispatched = <<>>
    /\ sent = <<>>
    /\ workflow = <<>>
    /\ route = Idle
    /\ guard = Idle
    /\ run = Idle
    /\ MoreIdle

LockNext ==
    \/ LStart
    \/ \E k \in DOMAIN lcalls : \E ok \in BOOLEAN : LAcquire(k, ok)
    \/ \E k \in DOMAIN lcalls : LBusy(k)
    \/ \E k \in DOMAIN lcalls : \E threw \in BOOLEAN : LFnExit(k, threw)
    \/ \E k \in DOMAIN lcalls : \E ok \in BOOLEAN : LRelease(k, ok)
    \/ LockExpire

LockSpec == LockInit /\ [][LockNext]_vars

\* ------------------------------------------------- workflow definitions
Undef == "undefined"
NoCond == [field |-> Undef, operator |-> Undef, value |-> Undef]

Node(id, type, prompt, waitForResponse, field, value) ==
    [id |-> id, type |-> type, prompt |-> prompt,
     waitForResponse |-> waitForResponse, field |-> field, value |-> value]

Edge(source, target, condition) ==
    [sourceNodeId |-> source, targetNodeId |-> target, condition |-> condition]

\* [ACTION_WAIT_FOR_INPUT W (with a prompt) -> ACTION_MESSAGE M]
WfWaitThenMessage ==
    [nodes |-> << Node("W", "ACTION_WAIT_FOR_INPUT", "your email?", Undef, Undef, Undef),
                  Node("M", "ACTION_MESSAGE", "thanks", Undef, Undef, Undef) >>,
     edges |-> << Edge("W", "M", NoCond) >>]

\* [AI_CLASSIFY_INTENT A -> CONDITION_EQUALS C -> ACTION_MESSAGE M]
WfClassify ==
    [nodes |-> << Node("A", "AI_CLASSIFY_INTENT", Undef, Undef, Undef, Undef),
                  Node("C", "CONDITION_EQUALS", Undef, Undef, "classifiedIntent", "billing"),
                  Node("M", "ACTION_MESSAGE", "here is billing info", Undef, Undef, Undef) >>,
     edges |-> << Edge("A", "C", NoCond), Edge("C", "M", NoCond) >>]

\* [AI_CLASSIFY_INTENT A -(classifiedIntent equals billing)-> ACTION_MESSAGE M,
\*                      A -(classifiedIntent equals general)-> ACTION_MESSAGE G]
WfRoute ==
    [nodes |-> << Node("A", "AI_CLASSIFY_INTENT", Undef, Undef, Undef, Undef),
                  Node("M", "ACTION_MESSAGE", "here is billing info", Undef, Undef, Undef),
                  Node("G", "ACTION_MESSAGE", "how can we help?", Undef, Undef, Undef) >>,
     edges |-> << Edge("A", "M", [field |-> "classifiedIntent", operator |-> "equals",
                                   value |-> "billing"]),
                  Edge("A", "G", [field |-> "classifiedIntent", operator |-> "equals",
                                   value |-> "general"]) >>]

Workflows == {WfWaitThenMessage, WfClassify, WfRoute}

\* Cyclic workflows without a wait node and without an exit: an entry node M
\* leads into the cycle X -> Y -> X, into the self-loop X -> X, or into a
\* cycle whose edges carry a condition that always holds.
WfCycle ==
    [nodes |-> << Node("M", "ACTION_MESSAGE", "welcome", "false", Undef, Undef),
                  Node("X", "ACTION_MESSAGE", "ping", "false", Undef, Undef),
                  Node("Y", "ACTION_MESSAGE", "pong", "false", Undef, Undef) >>,
     edges |-> << Edge("M", "X", NoCond), Edge("X", "Y", NoCond), Edge("Y", "X", NoCond) >>]

WfSelfLoop ==
    [nodes |-> << Node("M", "ACTION_MESSAGE", "welcome", "false", Undef, Undef),
                  Node("X", "ACTION_MESSAGE", "ping", "false", Undef, Undef) >>,
     edges |-> << Edge("M", "X", NoCond), Edge("X", "X", NoCond) >>]

WfCycleConditioned ==
    [nodes |-> << Node("M", "ACTION_MESSAGE", "welcome", "false", Undef, Undef),
                  Node("X", "ACTION_MESSAGE", "ping", "false", Undef, Undef),
                  Node("Y", "ACTION_MESSAGE", "pong", "false", Undef, Undef) >>,
     edges |-> << Edge("M", "X", NoCond),
                  Edge("X", "Y", [field |-> "messageSent", operator |-> "exists",
                                   value |-> Undef]),
                  Edge("Y", "X", [field |-> "messageSent", operator |-> "equals",
                                   value |-> "true"]) >>]

CycleWorkflows == {WfCycle, WfSelfLoop, WfCycleConditioned}

\* [U, of a type executeNode has no case for, -> ACTION_MESSAGE M]
WfUnknown ==
    [nodes |-> << Node("U", "ACTION_SEND_SMS", Undef, Undef, Undef, Undef),
                  Node("M", "ACTION_MESSAGE", "done", "false", Undef, Undef) >>,
     edges |-> << Edge("U", "M", NoCond) >>]

\* [ACTION_MESSAGE X -> ACTION_MESSAGE Y -> X]: every node has an incoming edge
WfNoEntry ==
    [nodes |-> << Node("X", "ACTION_MESSAGE", "ping", "false", Undef, Undef),
                  Node("Y", "ACTION_MESSAGE", "pong", "false", Undef, Undef) >>,
     edges |-> << Edge("X", "Y", NoCond), Edge("Y", "X", NoCond) >>]

NodeIds == {"W", "M", "A", "C", "G", "X", "Y", "U"}

\* what the intent classification of the AI capability may answer
Intents == {"billing", "Billing ", "general"}

\* ------------------------------------------------------ inbound messages
\* Message texts, and the characters of each.
Messages == {"a@b.c", "42"}

\* String(v): the characters of the strings the model holds (undefined prints
\* as "undefined")
Chars(text) ==
    CASE text = "a@b.c" -> <<"a", "@", "b", ".", "c">>
      [] text = "42" -> <<"4", "2">>
      [] text = "5" -> <<"5">>
      [] text = "10" -> <<"1", "0">>
      [] text = "bill" -> <<"b", "i", "l", "l">>
      [] text = "billing" -> <<"b", "i", "l", "l", "i", "n", "g">>
      [] text = "undefined" -> <<"u", "n", "d", "e", "f", "i", "n", "e", "d">>
      [] OTHER -> <<>>

Digits == {"0", "1", "2", "3", "4", "5", "6", "7", "8", "9"}
Whitespace == {" "}

\* /^[^\s@]+@[^\s@]+\.[^\s@]+$/.test(input)
EmailValid(text) ==
    LET input == Chars(text) IN
    \E at \in 1..Len(input) : \E dot \in 1..Len(input) :
        /\ input[at] = "@"
        /\ input[dot] = "."
        /\ 1 < at /\ at + 1 < dot /\ dot < Len(input)
        /\ \A i \in 1..Len(input) :
              /\ input[i] \notin Whitespace
              /\ (input[i] = "@" => i = at)

\* /^\+?[\d\s\-()]+$/.test(input)
PhoneValid(text) ==
    LET input == Chars(text)
        body == IF Len(input) > 0 /\ input[1] = "+" THEN Tail(input) ELSE input IN
    /\ Len(body) > 0
    /\ \A i \in 1..Len(body) : body[i] \in Digits \cup Whitespace \cup {"-", "(", ")"}

\* new RegExp(pattern).test(input), for the patterns of the modelled validations
PatDigits == "^[0-9]+$"
PatBroken == "("
RegexTest(pattern, text) ==
    LET input == Chars(text) IN
    CASE pattern = PatDigits ->
            Len(input) > 0 /\ \A i \in 1..Len(input) : input[i] \in Digits
      [] OTHER -> TRUE

Validation(type, pattern, errorMessage) ==
    [type |-> type, pattern |-> pattern, errorMessage |-> errorMessage]

NoValidation == Validation(Undef, Undef, Undef)

Or(a, b) == IF a = Undef THEN b ELSE a

\* validateInput(input, validation) -> {valid, errorMessage, extractedData};
\* new RegExp throws a SyntaxError on a broken pattern.
validateInput(input, validation) ==
    CASE validation.type = "regex" ->
            IF validation.pattern = PatBroken
            THEN [threw |-> TRUE, valid |-> FALSE, errorMessage |-> Undef, extractedData |-> Undef]
            ELSE [threw |-> FALSE, valid |-> RegexTest(validation.pattern, input),
                  errorMessage |-> Or(validation.errorMessage, "Invalid format"),
                  extractedData |-> input]
      [] validation.type = "email" ->
            [threw |-> FALSE, valid |-> EmailValid(input),
             errorMessage |-> Or(validation.errorMessage, "Please enter a valid email address"),
             extractedData |-> input]
      [] validation.type = "phone" ->
            [threw |-> FALSE, valid |-> PhoneValid(input),
             errorMessage |-> Or(validation.errorMessage, "Please enter a valid phone number"),
             extractedData |-> input]
      [] OTHER ->
            [threw |-> FALSE, valid |-> TRUE, errorMessage |-> Undef, extractedData |-> input]

\* the expectedInputValidation values of the contexts found in the store
Validations ==
    { Validation("email", Undef, Undef),
      Validation("phone", Undef, "digits please"),
      Validation("regex", PatBroken, Undef) }

\* ------------------------------------------------- ConversationExecutionContext
VarKeys == {"lastUserMessage", "lastMessageMetadata", "validatedInput",
            "classifiedIntent", "conditionMet", "messageSent", "waitingForInput"}

NoVariables == [k \in VarKeys |-> Undef]

\* { ...variables, ...result }: the keys of result overwrite
Merge(variables, result) ==
    [k \in VarKeys |-> IF k \in DOMAIN result THEN result[k] ELSE variables[k]]

Context(executionId, currentNodeId, variables, waiting, inputType, validation) ==
    [present |-> TRUE, executionId |-> executionId, currentNodeId |-> currentNodeId,
     variables |-> variables, waitingForInput |-> waiting,
     expectedInputType |-> inputType, expectedInputValidation |-> validation]

\* workflow.nodes.find(n => n.id === id); NoNode when there is none
NoNode == Node(Undef, Undef, Undef, Undef, Undef, Undef)

FindNode(wf, id) ==
    LET hits == SelectSeq(wf.nodes, LAMBDA n : n.id = id) IN
    IF Len(hits) = 0 THEN NoNode ELSE Head(hits)

\* workflow.nodes.find(node => !workflow.edges.some(e => e.targetNodeId === node.id))
EntryNode(wf) ==
    LET hits == SelectSeq(wf.nodes, LAMBDA n :
                    \A i \in 1..Len(wf.edges) : wf.edges[i].targetNodeId # n.id) IN
    IF Len(hits) = 0 THEN NoNode ELSE Head(hits)


\* ------------------------------------------------------------ edge router
\* evaluateCondition(condition, variables)
\* haystack.includes(needle) on character sequences
Includes(haystack, needle) ==
    \E i \in 0..(Len(haystack) - Len(needle)) :
        SubSeq(haystack, i + 1, i + Len(needle)) = needle

\* Number(v) on the strings the model holds; NaN when v is no numeral
NaN == [nan |-> TRUE, n |-> 0]
Num(n) == [nan |-> FALSE, n |-> n]
Number(v) ==
    CASE v = "5" -> Num(5)
      [] v = "10" -> Num(10)
      [] v = "42" -> Num(42)
      [] OTHER -> NaN

\* a > b on numbers: false when either is NaN
NumGreater(a, b) == ~a.nan /\ ~b.nan /\ a.n > b.n

evaluateCondition(condition, variables) ==
    IF condition.field = Undef \/ condition.operator = Undef THEN TRUE
    ELSE LET fieldValue == IF condition.field \in DOMAIN variables
                           THEN variables[condition.field] ELSE Undef IN
         CASE condition.operator = "equals" -> fieldValue = condition.value
           [] condition.operator = "notEquals" -> fieldValue # condition.value
           [] condition.operator = "contains" ->
                 Includes(Chars(fieldValue), Chars(condition.value))
           [] condition.operator = "notContains" ->
                 ~Includes(Chars(fieldValue), Chars(condition.value))
           [] condition.operator = "greaterThan" ->
                 NumGreater(Number(fieldValue), Number(condition.value))
           [] condition.operator = "lessThan" ->
                 NumGreater(Number(condition.value), Number(fieldValue))
           [] condition.operator = "exists" -> fieldValue # Undef
           [] condition.operator = "notExists" -> fieldValue = Undef
           [] OTHER -> TRUE

\* Mutant: the router takes the last edge that matches.
findNextNode_LastMatch(wf, currentNode, variables) ==
    LET outgoingEdges == SelectSeq(wf.edges, LAMBDA e : e.sourceNodeId = currentNode.id)
        taken == SelectSeq(outgoingEdges, LAMBDA e :
                     e.condition = NoCond \/ evaluateCondition(e.condition, variables))
    IN IF Len(taken) = 0 THEN Undef ELSE taken[Len(taken)].targetNodeId

\* findNextNode(currentNode, context): the target of the first outgoing edge, in
\* the order of workflow.edges, that has no condition or whose condition is met;
\* Undef (null) when there is none.
findNextNode(wf, currentNode, variables) ==
    LET outgoingEdges == SelectSeq(wf.edges, LAMBDA e : e.sourceNodeId = currentNode.id)
        taken == SelectSeq(outgoingEdges, LAMBDA e :
                     e.condition = NoCond \/ evaluateCondition(e.condition, variables))
    IN IF Len(taken) = 0 THEN Undef ELSE Head(taken).targetNodeId

\* ------------------------------------------------------------ RouterSpec
\* findNextNode applied to the edge lists of up to MaxEdges edges: each edge
\* leaves the current node N or another node X, the edge at position i leads
\* to Targets[i], and the edges out of N carry one of EdgeConditions.
Cond(field, operator, value) == [field |-> field, operator |-> operator, value |-> value]

EdgeConditions ==
    { NoCond,
      Cond("classifiedIntent", "equals", "billing"),
      Cond("classifiedIntent", "contains", "bill"),
      Cond("classifiedIntent", "greaterThan", "5"),
      Cond("classifiedIntent", "notExists", Undef),
      Cond("classifiedIntent", "matches", "^b") }

Targets == <<"T1", "T2", "T3", "T4", "T5">>

EdgeChoices ==
    {[source |-> "N", condition |-> c] : c \in EdgeConditions}
        \cup {[source |-> "X", condition |-> NoCond]}

EdgeLists ==
    UNION {{[i \in 1..n |-> Edge(choice[i].source, Targets[i], choice[i].condition)] :
              choice \in [1..n -> EdgeChoices]} : n \in 0..MaxEdges}

RouteValues == {Undef, "billing", "5", "10"}

\* neither a lock call nor a conversation
CoreIdle ==
    /\ lockKey = NoToken
    /\ lcalls = <<>>
    /\ store = NoCtx
    /\ execs = <<>>
    /\ calls = <<>>
    /\ bursts = <<>>
    /\ dispatched = <<>>
    /\ sent = <<>>
    /\ workflow = <<>>

RouterInit ==
    /\ CoreIdle
    /\ guard = Idle
    /\ run = Idle
    /\ MoreIdle
    /\ \E edges \in EdgeLists : \E v \in RouteValues :
          route = [wf |-> [nodes |-> <<>>, edges |-> edges],
                   currentNode |-> Node("N", "ACTION_SET_VARIABLE", Undef, Undef, Undef, Undef),
                   variables |-> Merge(NoVariables, [classifiedIntent |-> v]),
                   results |-> <<>>]

\* const nextNodeId = await findNextNode(node, context)
RouteFind ==
    /\ Len(route.results) < MaxRouteCalls
    /\ route' = [route EXCEPT !.results =
                    Append(@, findNextNode(route.wf, route.currentNode, route.variables))]
    /\ UNCHANGED <<coreVars, guard, run, moreVars>>

RouterNext == RouteFind

RouterSpec == RouterInit /\ [][RouterNext]_vars

\* ------------------------------------------------------------ GuardSpec
\* WorkflowLoopDetector (lib/workflowLoopDetector): visits maps a node id to
\* its count (0: no entry), late says that Date.now() - startTime has passed
\* maxExecutionTime.  calls, last and preempted record the visitNode calls:
\* how many per node, the outcome of the latest, and whether the time limit
\* or the node limit has raised.
GuardNodes == {"A", "B"}

NewDetector(maxVisitsPerNode, maxTotalNodes) ==
    [maxVisitsPerNode |-> maxVisitsPerNode, maxTotalNodes |-> maxTotalNodes,
     visits |-> [n \in GuardNodes |-> 0], late |-> FALSE,
     calls |-> [n \in GuardNodes |-> 0], last |-> "none", preempted |-> FALSE]

\* this.visits.size
VisitsSize(visits) == Cardinality({n \in DOMAIN visits : visits[n] > 0})

\* Mutant: the loop check raises when the count reaches maxVisitsPerNode.
visitNode_AtThreshold(g, nodeId) ==
    IF g.late THEN [visits |-> g.visits, outcome |-> "timeout"]
    ELSE IF VisitsSize(g.visits) >= g.maxTotalNodes
    THEN [visits |-> g.visits, outcome |-> "node_limit"]
    ELSE IF g.visits[nodeId] > 0
    THEN [visits |-> [g.visits EXCEPT ![nodeId] = @ + 1],
          outcome |-> IF g.visits[nodeId] + 1 >= g.maxVisitsPerNode THEN "loop" ELSE "ok"]
    ELSE [visits |-> [g.visits EXCEPT ![nodeId] = 1], outcome |-> "ok"]

\* visitNode(nodeId): the visits map afterwards and the outcome, "ok" or the
\* WorkflowLoopError raised (timeout, node_limit, loop)
visitNode(g, nodeId) ==
    IF g.late THEN [visits |-> g.visits, outcome |-> "timeout"]
    ELSE IF VisitsSize(g.visits) >= g.maxTotalNodes
    THEN [visits |-> g.visits, outcome |-> "node_limit"]
    ELSE IF g.visits[nodeId] > 0
    THEN [visits |-> [g.visits EXCEPT ![nodeId] = @ + 1],
          outcome |-> IF g.visits[nodeId] + 1 > g.maxVisitsPerNode THEN "loop" ELSE "ok"]
    ELSE [visits |-> [g.visits EXCEPT ![nodeId] = 1], outcome |-> "ok"]

GuardInit ==
    /\ CoreIdle
    /\ route = Idle
    /\ run = Idle
    /\ MoreIdle
    /\ \E v \in (0..MaxVisits) \cup {DefaultMaxVisitsPerNode} :
       \E t \in (1..MaxNodeLimit) \cup {DefaultMaxTotalNodes} :
          guard = NewDetector(v, t)

\* a caller visits nodeId; a node is visited until two visits past the threshold
GuardVisit(nodeId) ==
    /\ guard.calls[nodeId] < guard.maxVisitsPerNode + 2
    /\ LET r == visitNode(guard, nodeId) IN
       guard' = [guard EXCEPT !.visits = r.visits,
                              !.calls[nodeId] = @ + 1,
                              !.last = r.outcome,
                              !.preempted = @ \/ r.outcome \in {"timeout", "node_limit"}]
    /\ UNCHANGED <<coreVars, route, run, moreVars>>

\* the clock passes startTime + maxExecutionTime
GuardClock ==
    /\ ~guard.late
    /\ guard' = [guard EXCEPT !.late = TRUE]
    /\ UNCHANGED <<coreVars, route, run, moreVars>>

GuardNext ==
    \/ \E n \in GuardNodes : GuardVisit(n)
    \/ GuardClock

GuardSpec == GuardInit /\ [][GuardNext]_vars

\* ------------------------------------------------------------ RunSpec
\* executeWorkflow of services/workflow.service.ts on the workflow [N -> S]:
\* N carries the BaseNodeConfig under test and is of a known or an unknown
\* type, S is a node without outgoing edge that succeeds.  timeout says that
\* config.timeout is set.
\* config.maxRetries is not set
NotSet == -1

RunConfigs ==
    [retryOnError : BOOLEAN, maxRetries : {NotSet} \cup (0..MaxRetries),
     continueOnError : BOOLEAN, timeout : BOOLEAN, known : BOOLEAN]

\* Mutant: maxRetries applies whether or not retryOnError is set.
maxRetriesOf_IgnoresRetryOnError(config) ==
    IF config.maxRetries \in {NotSet, 0} THEN DefaultMaxRetries ELSE config.maxRetries

\* const maxRetries = config.retryOnError ? (config.maxRetries || 3) : 1
maxRetriesOf(config) ==
    IF config.retryOnError
    THEN IF config.maxRetries \in {NotSet, 0} THEN DefaultMaxRetries ELSE config.maxRetries
    ELSE 1

\* What an attempt of N may do: return a result with shouldContinue true
\* ("ok") or false ("stop"), throw, or lose the race against the timer.
\* executeNodeByType throws at once for a type it does not know.
AttemptOutcomes(config) ==
    IF ~config.known THEN {"throw"}
    ELSE {"ok", "stop", "throw"} \cup (IF config.timeout THEN {"timeout"} ELSE {})

NoResult == [success |-> Undef, shouldContinue |-> Undef]

\* Mutant: the last failure is rethrown whether or not continueOnError is set.
AfterLastFailure_AlwaysThrows(config) ==
    [pc |-> "failed", nodeResult |-> NoResult]

\* the catch block on the last attempt: swallow with a synthesized result
\* when config.continueOnError, else rethrow
AfterLastFailure(config) ==
    IF config.continueOnError
    THEN [pc |-> "route", nodeResult |-> [success |-> "false", shouldContinue |-> "true"]]
    ELSE [pc |-> "failed", nodeResult |-> NoResult]

RunInit ==
    /\ CoreIdle
    /\ route = Idle
    /\ guard = Idle
    /\ MoreIdle
    /\ \E config \in RunConfigs :
          run = [config |-> config, pc |-> "start", status |-> "none",
                 attempts |-> 0, failures |-> 0, delays |-> <<>>,
                 nodeResult |-> NoResult, variables |-> "initial",
                 successors |-> 0, pending |-> {}, late |-> {}]

\* executeWorkflow: create the execution (RUNNING), find the entry node N and
\* call executeNode(N) up to its retry loop
RunStart ==
    /\ run.pc = "start"
    /\ run' = [run EXCEPT !.pc = "attempt", !.status = "RUNNING"]
    /\ UNCHANGED <<coreVars, route, guard, moreVars>>

\* Promise.race([executeNodeByType(node, context), timer]): when the timer
\* wins, the promise of the executor is dropped, not cancelled: the executor
\* of that attempt is still running
StillPending(pending, attempt, outcome) ==
    IF outcome = "timeout" THEN pending \cup {attempt} ELSE pending

\* one pass of `while (attempts < maxRetries)`: the attempt, then the success
\* path or the catch block, the backoff wait included
RunAttempt(outcome) ==
    /\ run.pc = "attempt"
    /\ run.attempts < maxRetriesOf(run.config)
    /\ outcome \in AttemptOutcomes(run.config)
    /\ LET attempts == run.attempts + 1
           isLastAttempt == attempts >= maxRetriesOf(run.config)
           last == AfterLastFailure(run.config)
       IN run' =
            IF outcome \in {"ok", "stop"}
            THEN [run EXCEPT !.attempts = attempts, !.pc = "route",
                             !.variables = "merged",
                             !.nodeResult = [success |-> "true",
                                             shouldContinue |->
                                                 IF outcome = "ok" THEN "true" ELSE "false"]]
            ELSE IF isLastAttempt
            THEN [run EXCEPT !.attempts = attempts, !.failures = @ + 1,
                             !.pc = last.pc, !.nodeResult = last.nodeResult,
                             !.pending = StillPending(@, attempts, outcome)]
            ELSE [run EXCEPT !.attempts = attempts, !.failures = @ + 1,
                             !.delays = Append(@, 1000 * attempts),
                             !.pending = StillPending(@, attempts, outcome)]
    /\ UNCHANGED <<coreVars, route, guard, moreVars>>

\* after the loop: return when !nodeResult.shouldContinue, else
\* executeNode(S) over the outgoing edge; S succeeds and has no edge
RunRoute ==
    /\ run.pc = "route"
    /\ run' = IF run.nodeResult.shouldContinue = "true"
               THEN [run EXCEPT !.pc = "complete", !.successors = @ + 1]
               ELSE [run EXCEPT !.pc = "complete"]
    /\ UNCHANGED <<coreVars, route, guard, moreVars>>

\* executeWorkflow after the entry nodes: status COMPLETED
RunComplete ==
    /\ run.pc = "complete"
    /\ run' = [run EXCEPT !.pc = "done", !.status = "COMPLETED"]
    /\ UNCHANGED <<coreVars, route, guard, moreVars>>

\* executeWorkflow's catch: status FAILED, rethrow
RunFailed ==
    /\ run.pc = "failed"
    /\ run' = [run EXCEPT !.pc = "done", !.status = "FAILED"]
    /\ UNCHANGED <<coreVars, route, guard, moreVars>>

\* the executor of an attempt that lost the race comes to its end, with the
\* side effects of the node: late holds the attempts that ended this way
RunExecutorSettles(attempt) ==
    /\ attempt \in run.pending
    /\ run' = [run EXCEPT !.pending = @ \ {attempt}, !.late = @ \cup {attempt}]
    /\ UNCHANGED <<coreVars, route, guard, moreVars>>

RunNext ==
    \/ RunStart
    \/ \E a \in 1..(MaxRetries + 1) : RunExecutorSettles(a)
    \/ \E o \in {"ok", "stop", "throw", "timeout"} : RunAttempt(o)
    \/ RunRoute
    \/ RunComplete
    \/ RunFailed

RunSpec == RunInit /\ [][RunNext]_vars

\* ------------------------------------------------------------ node executors
ConditionTypes == {"CONDITION_KEYWORD", "CONDITION_REGEX", "CONDITION_EQUALS",
                   "CONDITION_CONTAINS", "CONDITION_VARIABLE", "CONDITION_SENTIMENT",
                   "CONDITION_TIME"}

\* isNextNodeCondition(context): some edge out of the current node leads to a
\* CONDITION_ node
isNextNodeCondition(wf, ctx) ==
    LET currentNode == FindNode(wf, ctx.currentNodeId) IN
    /\ currentNode # NoNode
    /\ \E i \in 1..Len(wf.edges) :
          /\ wf.edges[i].sourceNodeId = currentNode.id
          /\ FindNode(wf, wf.edges[i].targetNodeId).type \in ConditionTypes

\* a boolean as a value of the variables map
JsBool(b) == IF b THEN "true" ELSE "false"

\* String(v || "").trim().toLowerCase() on the values the model holds
TrimLower(v) ==
    CASE v = Undef -> ""
      [] v = "Billing " -> "billing"
      [] OTHER -> v

\* executeConditionEquals(config, variables), caseSensitive not set
executeConditionEquals(node, variables) ==
    LET field == Or(node.field, "lastUserMessage")
        expectedValue == Or(node.value, "")
    IN [conditionMet |-> JsBool(TrimLower(variables[field]) = TrimLower(expectedValue))]

\* What the external capability a node calls answers: the AI call throws
\* ("throw") or classifies the text as one of Intents.
Outcomes(node) ==
    IF node.type = "AI_CLASSIFY_INTENT" THEN {"throw"} \cup Intents ELSE {"ok"}

\* the executors that await sendMessageToUser, whose prisma.message.create
\* can reject
Sends(node) ==
    \/ node.type = "ACTION_MESSAGE"
    \/ node.type = "ACTION_WAIT_FOR_INPUT" /\ node.prompt # Undef

\* the outcomes of a node when message delivery can fail as well
OutcomesUnreliable(node) ==
    Outcomes(node) \cup (IF Sends(node) THEN {"throw"} ELSE {})

\* executeNode(node, context): [threw, ctx (the context object after the call),
\* result (merged into variables by processNextNode), sends (sendMessageToUser calls)]
executeNode(wf, node, ctx, outcome) ==
    CASE node.type \in {"ACTION_WAIT_FOR_INPUT"} ->
            IF outcome = "throw"
            THEN \* sendMessageToUser rejects: the flags are set already
                 [threw |-> TRUE,
                  ctx |-> [ctx EXCEPT !.waitingForInput = TRUE, !.expectedInputType = "text"],
                  result |-> <<>>, sends |-> 0]
            ELSE
            [threw |-> FALSE,
             ctx |-> [ctx EXCEPT !.waitingForInput = TRUE, !.expectedInputType = "text"],
             result |-> [waitingForInput |-> "true"],
             sends |-> IF node.prompt # Undef THEN 1 ELSE 0]
      [] node.type = "ACTION_MESSAGE" /\ outcome = "throw" ->
            [threw |-> TRUE, ctx |-> ctx, result |-> <<>>, sends |-> 0]
      [] node.type = "ACTION_MESSAGE" ->
            LET shouldWait == \/ node.waitForResponse = "true"
                              \/ (node.waitForResponse # "false" /\ isNextNodeCondition(wf, ctx))
            IN [threw |-> FALSE,
                ctx |-> IF shouldWait THEN [ctx EXCEPT !.waitingForInput = TRUE] ELSE ctx,
                result |-> IF shouldWait
                           THEN [messageSent |-> "true", waitingForInput |-> "true"]
                           ELSE [messageSent |-> "true"],
                sends |-> 1]
      [] node.type = "AI_CLASSIFY_INTENT" ->
            IF outcome = "throw"
            THEN [threw |-> TRUE, ctx |-> ctx, result |-> <<>>, sends |-> 0]
            ELSE [threw |-> FALSE, ctx |-> ctx,
                  result |-> [classifiedIntent |-> outcome], sends |-> 0]
      [] node.type = "CONDITION_EQUALS" ->
            [threw |-> FALSE, ctx |-> ctx,
             result |-> executeConditionEquals(node, ctx.variables), sends |-> 0]
      [] OTHER ->
            \* default: logger.warn('Unknown node type'); return {}
            [threw |-> FALSE, ctx |-> ctx, result |-> <<>>, sends |-> 0]

\* ------------------------------------------------------------ processNextNode
\* Entry of processNextNode up to its first I/O.
EnterProcess(wf, ctx) ==
    IF ctx.currentNodeId = Undef THEN "mark_completed"
    ELSE IF FindNode(wf, ctx.currentNodeId) = NoNode THEN "mark_failed"
    ELSE "dispatch"

NewBurst(wf, ctx) == [ctx |-> ctx, pc |-> EnterProcess(wf, ctx)]

\* the chains without chain number b: a chain that has settled is dropped
Settle(b) == [i \in 1..(Len(bursts) - 1) |-> IF i < b THEN bursts[i] ELSE bursts[i + 1]]

\* Mutant: when no edge is taken the chain persists the context and stops.
StepAfterNode_NoMatchSuspends(wf, node, r) ==
    IF r.threw THEN [ctx |-> r.ctx, pc |-> "mark_failed"]
    ELSE LET merged == [r.ctx EXCEPT !.variables = Merge(@, r.result)] IN
         IF merged.waitingForInput THEN [ctx |-> merged, pc |-> "save_wait"]
         ELSE LET nextNodeId == findNextNode(wf, node, merged.variables) IN
              IF nextNodeId = Undef THEN [ctx |-> merged, pc |-> "save_wait"]
              ELSE [ctx |-> [merged EXCEPT !.currentNodeId = nextNodeId],
                    pc |-> "save_next"]

\* processNextNode after `await executeNode`: merge, suspend, route or rethrow.
StepAfterNode(wf, node, r) ==
    IF r.threw THEN [ctx |-> r.ctx, pc |-> "mark_failed"]
    ELSE LET merged == [r.ctx EXCEPT !.variables = Merge(@, r.result)] IN
         IF merged.waitingForInput THEN [ctx |-> merged, pc |-> "save_wait"]
         ELSE LET nextNodeId == findNextNode(wf, node, merged.variables) IN
              IF nextNodeId = Undef THEN [ctx |-> merged, pc |-> "mark_completed"]
              ELSE [ctx |-> [merged EXCEPT !.currentNodeId = nextNodeId],
                    pc |-> "save_next"]

\* const result = await executeNode(node, context) and the code up to the next I/O
BurstExecute(b, outcome, outcomes) ==
    /\ bursts[b].pc = "dispatch"
    /\ LET ctx == bursts[b].ctx
           node == FindNode(workflow, ctx.currentNodeId)
           r == executeNode(workflow, node, ctx, outcome)
           step == StepAfterNode(workflow, node, r)
       IN /\ outcome \in outcomes[node.id]
          /\ dispatched[node.id] < MaxDispatch
          /\ dispatched' = [dispatched EXCEPT ![node.id] = @ + 1]
          /\ sent' = [sent EXCEPT ![node.id] = @ + r.sends]
          /\ bursts' = [bursts EXCEPT ![b] = [@ EXCEPT !.ctx = step.ctx, !.pc = step.pc]]
    /\ UNCHANGED <<lockKey, lcalls, store, execs, calls, workflow, unitVars>>

\* the dispatch when sendMessageToUser delivers every message
BurstDispatch(b, outcome) ==
    BurstExecute(b, outcome, [n \in NodeIds |-> Outcomes(FindNode(workflow, n))])

\* await WorkflowStateManager.saveContext(context): before pausing, or before
\* the recursive processNextNode(context)
BurstSave(b) ==
    /\ bursts[b].pc \in {"save_wait", "save_next"}
    /\ store' = bursts[b].ctx
    /\ bursts' = IF bursts[b].pc = "save_wait" THEN Settle(b)
                  ELSE [bursts EXCEPT ![b] =
                          [@ EXCEPT !.pc = EnterProcess(workflow, bursts[b].ctx)]]
    /\ UNCHANGED <<lockKey, lcalls, execs, calls, dispatched, sent, workflow, unitVars>>

\* await markExecutionCompleted(context.executionId)
BurstMarkCompleted(b) ==
    /\ bursts[b].pc = "mark_completed"
    /\ execs' = [execs EXCEPT ![bursts[b].ctx.executionId] = "COMPLETED"]
    /\ bursts' = [bursts EXCEPT ![b] = [@ EXCEPT !.pc = "delete"]]
    /\ UNCHANGED <<lockKey, lcalls, store, calls, dispatched, sent, workflow, unitVars>>

\* await WorkflowStateManager.deleteContext(context.conversationId)
BurstDelete(b) ==
    /\ bursts[b].pc = "delete"
    /\ store' = NoCtx
    /\ bursts' = Settle(b)
    /\ UNCHANGED <<lockKey, lcalls, execs, calls, dispatched, sent, workflow, unitVars>>

\* the .catch handler of the chain: markExecutionFailed(context.executionId, ...)
BurstMarkFailed(b) ==
    /\ bursts[b].pc = "mark_failed"
    /\ execs' = [execs EXCEPT ![bursts[b].ctx.executionId] = "FAILED"]
    /\ bursts' = Settle(b)
    /\ UNCHANGED <<lockKey, lcalls, store, calls, dispatched, sent, workflow, unitVars>>


\* ------------------------------------------------------------ API calls
NewCall(kind, msg) ==
    [kind |-> kind, pc |-> IF kind = "init" THEN "check" ELSE "acquire",
     msg |-> msg, i |-> 0, local |-> NoCtx, found |-> "unset",
     result |-> "unset", reply |-> Undef, executionId |-> Undef,
     spawned |-> 0, saves |-> 0]

\* A call that has returned or thrown keeps its arguments and its result only.
Finished(call, result) ==
    [NewCall(call.kind, call.msg) EXCEPT !.pc = "done", !.result = result]

\* Call ids are interchangeable and a started call takes its first step at any
\* later time, so the calls are numbered by kind and text: starting them in
\* this order loses no interleaving of their steps.
Rank(kind, msg) ==
    CASE kind = "init" -> 0
      [] msg = "42" -> 1
      [] OTHER -> 2

\* a collaborator calls initializeWorkflowForConversation or
\* handleMessageInWorkflow for the conversation
StartCall(kind, msg) ==
    /\ Len(calls) < MaxCalls
    /\ Len(calls) > 0 =>
          Rank(calls[Len(calls)].kind, calls[Len(calls)].msg) <= Rank(kind, msg)
    /\ kind = "init" => msg = Undef
    /\ kind = "msg" => msg \in Messages
    /\ calls' = Append(calls, NewCall(kind, msg))
    /\ UNCHANGED <<lockKey, lcalls, store, execs, bursts, dispatched, sent, workflow, unitVars>>

\* ---- initializeWorkflowForConversation
\* Mutant: initialize goes on whether or not a context exists.
InitCheck_AlwaysCreates(c) ==
    /\ calls[c].kind = "init" /\ calls[c].pc = "check"
    /\ calls' = [calls EXCEPT ![c] = [@ EXCEPT !.pc = "create", !.found = "none"]]
    /\ UNCHANGED <<lockKey, lcalls, store, execs, bursts, dispatched, sent, workflow, unitVars>>

\* const existingContext = await getContext(conversationId); if (existingContext) return
InitCheck(c) ==
    /\ calls[c].kind = "init" /\ calls[c].pc = "check"
    /\ calls' = [calls EXCEPT ![c] =
          IF store.present
          THEN Finished(@, "existing")
          ELSE [@ EXCEPT !.pc = "create", !.found = "none"]]
    /\ UNCHANGED <<lockKey, lcalls, store, execs, bursts, dispatched, sent, workflow, unitVars>>

\* prisma.workflow.findFirst, prisma.workflowExecution.create({status: RUNNING}),
\* then the entry node: none throws "No entry node found in workflow"
InitCreate(c) ==
    /\ calls[c].kind = "init" /\ calls[c].pc = "create"
    /\ execs' = Append(execs, "RUNNING")
    /\ LET entryNode == EntryNode(workflow)
           executionId == Len(execs) + 1
       IN calls' = [calls EXCEPT ![c] =
             IF entryNode = NoNode
             THEN Finished(@, "threw")
             ELSE [@ EXCEPT !.pc = "save", !.executionId = executionId,
                      !.local = Context(executionId, entryNode.id, NoVariables,
                                        FALSE, Undef, NoValidation)]]
    /\ UNCHANGED <<lockKey, lcalls, store, bursts, dispatched, sent, workflow, unitVars>>

\* await saveContext(context); processNextNode(context).catch(...); return execution
InitSave(c) ==
    /\ calls[c].kind = "init" /\ calls[c].pc = "save"
    /\ store' = calls[c].local
    /\ bursts' = Append(bursts, NewBurst(workflow, calls[c].local))
    /\ calls' = [calls EXCEPT ![c] = Finished(@, "execution")]
    /\ UNCHANGED <<lockKey, lcalls, execs, dispatched, sent, workflow, unitVars>>

\* ---- handleMessageInWorkflow
\* RedisLock.withLock('workflow:exec:<conversation>', fn, {ttl: 30, retries: 5, waitMs: 200})
MsgAcquire(c) ==
    /\ calls[c].kind = "msg" /\ calls[c].pc = "acquire"
    /\ LET r == RedisSetNX(lockKey, LockValue(c), TRUE) IN
       /\ lockKey' = r.key
       /\ calls' = [calls EXCEPT ![c] =
             IF r.acquired THEN [@ EXCEPT !.pc = "get"]
             ELSE [@ EXCEPT !.pc = PcAfterFailedAcquire(calls[c].i, HandleRetries),
                            !.i = @ + 1]]
    /\ UNCHANGED <<lcalls, store, execs, bursts, dispatched, sent, workflow, unitVars>>

\* throw new Error('Failed to acquire lock for resource: ...')
MsgBusy(c) ==
    /\ calls[c].kind = "msg" /\ calls[c].pc = "busy"
    /\ calls' = [calls EXCEPT ![c] = Finished(@, "lock_busy")]
    /\ UNCHANGED <<lockKey, lcalls, store, execs, bursts, dispatched, sent, workflow, unitVars>>

\* Mutant: the handler resumes whether or not the context waits for input.
HandleMessage_NoWaitingCheck(ctx, msg) ==
    IF ~ctx.present
    THEN [found |-> "none", pc |-> "release", result |-> "null", reply |-> Undef,
          local |-> NoCtx]
    ELSE [found |-> IF ctx.waitingForInput THEN "waiting" ELSE "running",
          pc |-> "save", result |-> "unset", reply |-> Undef,
          local |-> [ctx EXCEPT !.waitingForInput = FALSE]]

\* Mutant: a failed validation still stores the message and goes on to save.
HandleMessage_SaveOnInvalid(ctx, msg) ==
    IF ~ctx.present
    THEN [found |-> "none", pc |-> "release", result |-> "null", reply |-> Undef,
          local |-> NoCtx]
    ELSE IF ~ctx.waitingForInput
    THEN [found |-> "running", pc |-> "release", result |-> "null", reply |-> Undef,
          local |-> ctx]
    ELSE LET v == validateInput(msg, ctx.expectedInputValidation)
             withMsg == [ctx EXCEPT !.variables = Merge(@,
                            [lastUserMessage |-> msg, lastMessageMetadata |-> "meta"])]
         IN IF ctx.expectedInputValidation # NoValidation /\ ~v.threw /\ ~v.valid
            THEN [found |-> "waiting", pc |-> "save", result |-> "validation_error",
                  reply |-> Or(v.errorMessage, "Invalid input. Please try again."),
                  local |-> withMsg]
            ELSE [found |-> "waiting", pc |-> "save", result |-> "unset", reply |-> Undef,
                  local |-> [withMsg EXCEPT !.waitingForInput = FALSE]]

\* Mutant: a message for a conversation without a context starts one.
HandleMessage_CreateWhenMissing(ctx, msg) ==
    IF ~ctx.present
    THEN [found |-> "none", pc |-> "save", result |-> "unset", reply |-> Undef,
          local |-> Context(1, "W", NoVariables, FALSE, Undef, NoValidation)]
    ELSE [found |-> IF ctx.waitingForInput THEN "waiting" ELSE "running",
          pc |-> "release", result |-> "null", reply |-> Undef, local |-> ctx]

\* The callback of handleMessageInWorkflow from the context getContext returned
\* up to its next I/O: what it found, where it goes (save, or return/throw to
\* withLock's finally), its result and the context object it holds.
HandleMessage(ctx, msg) ==
    IF ~ctx.present
    THEN [found |-> "none", pc |-> "release", result |-> "null", reply |-> Undef,
          local |-> NoCtx]
    ELSE IF ~ctx.waitingForInput
    THEN [found |-> "running", pc |-> "release", result |-> "null", reply |-> Undef,
          local |-> ctx]
    ELSE LET withMsg == [ctx EXCEPT !.variables = Merge(@,
                            [lastUserMessage |-> msg, lastMessageMetadata |-> "meta"])]
             v == validateInput(msg, ctx.expectedInputValidation)
             cleared == [withMsg EXCEPT !.waitingForInput = FALSE,
                                        !.expectedInputType = Undef,
                                        !.expectedInputValidation = NoValidation]
         IN IF ctx.expectedInputValidation = NoValidation
            THEN [found |-> "waiting", pc |-> "save", result |-> "unset",
                  reply |-> Undef, local |-> cleared]
            ELSE IF v.threw
            THEN [found |-> "waiting", pc |-> "release", result |-> "threw",
                  reply |-> Undef, local |-> withMsg]
            ELSE IF ~v.valid
            THEN [found |-> "waiting", pc |-> "release", result |-> "validation_error",
                  reply |-> Or(v.errorMessage, "Invalid input. Please try again."),
                  local |-> withMsg]
            ELSE [found |-> "waiting", pc |-> "save", result |-> "unset", reply |-> Undef,
                  local |-> [cleared EXCEPT !.variables =
                                Merge(@, [validatedInput |-> v.extractedData])]]

\* const context = await getContext(conversationId), and the callback up to
\* its return, its throw or its saveContext
MsgGet(c) ==
    /\ calls[c].kind = "msg" /\ calls[c].pc = "get"
    /\ LET h == HandleMessage(store, calls[c].msg) IN
       calls' = [calls EXCEPT ![c] =
          [@ EXCEPT !.pc = h.pc, !.found = h.found, !.result = h.result,
                    !.reply = h.reply, !.local = h.local]]
    /\ UNCHANGED <<lockKey, lcalls, store, execs, bursts, dispatched, sent, workflow, unitVars>>

\* await saveContext(context); processNextNode(context).catch(...);
\* return {shouldRespond: false, continueWorkflow: true}
MsgSave(c) ==
    /\ calls[c].kind = "msg" /\ calls[c].pc = "save"
    /\ store' = calls[c].local
    /\ bursts' = Append(bursts, NewBurst(workflow, calls[c].local))
    /\ calls' = [calls EXCEPT ![c] =
          [@ EXCEPT !.pc = "release", !.spawned = @ + 1, !.saves = @ + 1,
                    !.local = NoCtx,
                    !.result = IF @ = "unset" THEN "continue" ELSE @]]
    /\ UNCHANGED <<lockKey, lcalls, execs, dispatched, sent, workflow, unitVars>>

\* finally { await lock.release() }
MsgRelease(c) ==
    /\ calls[c].kind = "msg" /\ calls[c].pc = "release"
    /\ lockKey' = RedisEvalRelease(lockKey, LockValue(c), TRUE).key
    /\ calls' = [calls EXCEPT ![c] = Finished(@, calls[c].result)]
    /\ UNCHANGED <<lcalls, store, execs, bursts, dispatched, sent, workflow, unitVars>>

\* the ttl of the conversation lock elapses
EngineLockExpire ==
    /\ lockKey # NoToken
    /\ lockKey' = NoToken
    /\ UNCHANGED <<lcalls, store, execs, calls, bursts, dispatched, sent, workflow, unitVars>>

\* ------------------------------------------------------------ Spec
\* The context store is a Redis key that outlives the engine process: at start
\* the conversation has no context, or a suspended one an earlier process left,
\* a ConversationExecutionContext that may carry expectedInputValidation.
SuspendedAt(validation) ==
    Context(1, "W", Merge(NoVariables, [waitingForInput |-> "true"]), TRUE, "text", validation)

Init ==
    /\ lockKey = NoToken
    /\ lcalls = <<>>
    /\ calls = <<>>
    /\ bursts = <<>>
    /\ dispatched = [n \in NodeIds |-> 0]
    /\ sent = [n \in NodeIds |-> 0]
    /\ workflow \in Workflows
    /\ route = Idle
    /\ guard = Idle
    /\ run = Idle
    /\ MoreIdle
    /\ \/ store = NoCtx /\ execs = <<>>
       \/ /\ workflow = WfWaitThenMessage
          /\ \E v \in Validations : store = SuspendedAt(v)
          /\ execs = <<"RUNNING">>

Next ==
    \/ \E kind \in {"init", "msg"} : \E msg \in Messages \cup {Undef} : StartCall(kind, msg)
    \/ \E c \in DOMAIN calls : InitCheck(c)
    \/ \E c \in DOMAIN calls : InitCreate(c)
    \/ \E c \in DOMAIN calls : InitSave(c)
    \/ \E c \in DOMAIN calls : MsgAcquire(c)
    \/ \E c \in DOMAIN calls : MsgBusy(c)
    \/ \E c \in DOMAIN calls : MsgGet(c)
    \/ \E c \in DOMAIN calls : MsgSave(c)
    \/ \E c \in DOMAIN calls : MsgRelease(c)
    \/ EngineLockExpire
    \/ \E b \in DOMAIN bursts : \E o \in {"ok", "throw"} \cup Intents : BurstDispatch(b, o)
    \/ \E b \in DOMAIN bursts : BurstSave(b)
    \/ \E b \in DOMAIN bursts : BurstMarkCompleted(b)
    \/ \E b \in DOMAIN bursts : BurstDelete(b)
    \/ \E b \in DOMAIN bursts : BurstMarkFailed(b)

Spec == Init /\ [][Next]_vars

\* ------------------------------------------------------------ FlowSpec
\* One initializeWorkflowForConversation call, and the chain it starts, on a
\* workflow without wait node: a cyclic one, one with a node of a type the
\* engine does not know, or one without entry node.
FlowInit ==
    /\ lockKey = NoToken
    /\ lcalls = <<>>
    /\ calls = <<>>
    /\ bursts = <<>>
    /\ dispatched = [n \in NodeIds |-> 0]
    /\ sent = [n \in NodeIds |-> 0]
    /\ workflow \in CycleWorkflows \cup {WfUnknown, WfNoEntry}
    /\ route = Idle
    /\ guard = Idle
    /\ run = Idle
    /\ MoreIdle
    /\ store = NoCtx
    /\ execs = <<>>

FlowStart ==
    /\ Len(calls) = 0
    /\ StartCall("init", Undef)

FlowNext ==
    \/ FlowStart
    \/ \E c \in DOMAIN calls : InitCheck(c)
    \/ \E c \in DOMAIN calls : InitCreate(c)
    \/ \E c \in DOMAIN calls : InitSave(c)
    \/ \E b \in DOMAIN bursts : BurstDispatch(b, "ok")
    \/ \E b \in DOMAIN bursts : BurstSave(b)
    \/ \E b \in DOMAIN bursts : BurstMarkCompleted(b)
    \/ \E b \in DOMAIN bursts : BurstDelete(b)

FlowSpec == FlowInit /\ [][FlowNext]_vars

\* -------------------------------------------------------------- ApiSpec
\* An ACTION_API_CALL node.  A URL is its protocol and its host; a host is
\* what is written between "//" and the path: a name, a dotted IPv4 address
\* or an IPv6 address in brackets, kept as its labels.
Host(kind, labels) == [kind |-> kind, labels |-> labels]

Url(protocol, host) == [protocol |-> protocol, host |-> host]

\* config.url missing: config.url || ""
NoUrl == Url(Undef, Host("none", <<>>))

\* the placeholder {{target}} in the host position of the URL
TargetRef == Host("ref", <<"{{target}}">>)

ApiHosts ==
    { Host("name", <<"localhost">>),
      Host("name", <<"api", "example", "com">>),
      Host("ipv4", <<"127", "0", "0", "1">>),
      Host("ipv4", <<"127", "0", "0", "2">>),
      Host("ipv4", <<"0", "0", "0", "0">>),
      Host("ipv4", <<"10", "0", "0", "5">>),
      Host("ipv4", <<"172", "16", "0", "1">>),
      Host("ipv4", <<"172", "31", "0", "1">>),
      Host("ipv4", <<"172", "32", "0", "1">>),
      Host("ipv4", <<"192", "168", "1", "1">>),
      Host("ipv4", <<"169", "254", "169", "254">>),
      Host("ipv4", <<"8", "8", "8", "8">>),
      Host("ipv6", <<"[::1]">>) }

ApiProtocols == {"http:", "https:", "ftp:"}

\* config.url of the node: a literal URL, a URL with {{target}} as its host,
\* or none
ApiUrls ==
    {Url(p, h) : p \in ApiProtocols, h \in ApiHosts}
        \cup {Url("http:", TargetRef), NoUrl}

\* interpolateVariables / replaceVariables on a URL: {{target}} is replaced
\* by String(variables.target)
interpolateUrl(url, variables) ==
    IF url.host = TargetRef /\ "target" \in DOMAIN variables
    THEN Url(url.protocol, variables.target)
    ELSE url

\* new URL(url) throws on "" and on a host that is no host
Parses(url) == url.host.kind \in {"name", "ipv4", "ipv6"}

\* parsed.hostname: the labels of the host; an IPv6 address keeps the
\* brackets it is written with
Hostname(url) == url.host.labels

\* hostname.startsWith(prefix + "."), prefix a sequence of labels
StartsWithLabels(hostname, prefix) ==
    /\ Len(hostname) > Len(prefix)
    /\ SubSeq(hostname, 1, Len(prefix)) = prefix

\* (1[6-9]|2[0-9]|3[0-1])
Private172 ==
    {"16", "17", "18", "19", "20", "21", "22", "23",
     "24", "25", "26", "27", "28", "29", "30", "31"}

blockedHosts ==
    {<<"localhost">>, <<"127", "0", "0", "1">>, <<"0", "0", "0", "0">>, <<"::1">>}

\* validateApiUrl: "ok", or the message of the error it throws
validateApiUrl(url) ==
    IF ~Parses(url) THEN "Invalid URL format"
    ELSE IF Hostname(url) \in blockedHosts
         THEN "Cannot call localhost or internal addresses"
    ELSE IF \/ StartsWithLabels(Hostname(url), <<"192", "168">>)
            \/ StartsWithLabels(Hostname(url), <<"10">>)
            \/ /\ StartsWithLabels(Hostname(url), <<"172">>)
               /\ Len(Hostname(url)) > 2
               /\ Hostname(url)[2] \in Private172
            \/ StartsWithLabels(Hostname(url), <<"169", "254">>)
         THEN "Cannot call private networks"
    ELSE IF url.protocol \notin {"http:", "https:"} THEN "Invalid URL format"
    ELSE "ok"

\* the two executors of ACTION_API_CALL: the one of the conversation engine
\* (workflowExecutor.service.ts) and the one of workflow.service.ts
ApiEngines == {"conversation", "service"}

ApiInit ==
    /\ CoreIdle
    /\ route = Idle
    /\ guard = Idle
    /\ run = Idle
    /\ breaker = Idle
    /\ stops = Idle
    /\ \E e \in ApiEngines : \E u \in ApiUrls : \E t \in ApiHosts :
          api = [engine |-> e,
                 config |-> [url |-> u],
                 variables |-> [target |-> t],
                 pc |-> "start",
                 url |-> NoUrl,
                 requests |-> <<>>,
                 error |-> Undef,
                 merged |-> FALSE]

\* the executor up to its network call: the URL is interpolated and, in the
\* conversation engine only, validated
ApiPrepare ==
    /\ api.pc = "start"
    /\ LET url == interpolateUrl(api.config.url, api.variables)
           verdict == IF api.engine = "conversation" THEN validateApiUrl(url) ELSE "ok"
       IN api' = [api EXCEPT !.url = url,
                             !.pc = IF verdict = "ok" THEN "fetch" ELSE "threw",
                             !.error = IF verdict = "ok" THEN Undef ELSE verdict]
    /\ UNCHANGED <<coreVars, route, guard, run, breaker, stops>>

\* await fetch(url, ...): the request is issued; it is answered or it fails.
\* The conversation engine catches the failure and returns
\* {apiError, apiSuccess: false}, the other executor lets it propagate.
ApiFetch(answered) ==
    /\ api.pc = "fetch"
    /\ api' = [api EXCEPT
                 !.requests = Append(@, api.url),
                 !.pc = IF answered \/ api.engine = "conversation"
                        THEN "returned" ELSE "threw",
                 !.error = IF answered \/ api.engine = "conversation"
                           THEN Undef ELSE "fetch failed"]
    /\ UNCHANGED <<coreVars, route, guard, run, breaker, stops>>

\* the caller merges the returned result into the variables
ApiMerge ==
    /\ api.pc = "returned"
    /\ api' = [api EXCEPT !.merged = TRUE, !.pc = "done"]
    /\ UNCHANGED <<coreVars, route, guard, run, breaker, stops>>

\* the caller's catch: the error of the executor is the error of the node
ApiNodeError ==
    /\ api.pc = "threw"
    /\ api' = [api EXCEPT !.pc = "failed"]
    /\ UNCHANGED <<coreVars, route, guard, run, breaker, stops>>

ApiNext ==
    \/ ApiPrepare
    \/ \E answered \in BOOLEAN : ApiFetch(answered)
    \/ ApiMerge
    \/ ApiNodeError

ApiSpec == ApiInit /\ [][ApiNext]_vars

\* ------------------------------------------------------------- StopSpec
\* initializeWorkflowForConversation, handleMessageInWorkflow and
\* stopWorkflowForConversation calls for one conversation, on a workflow that
\* suspends and on one that runs to its end.  stops records the stop calls: how many
\* have returned and, for the latest, the number of calls started before it,
\* how many of them had not finished, how many chains were running and
\* whether the conversation lock was held.

\* Mutant: the stop leaves the persisted context alone.
deleteContext_Keeps(ctx) == ctx

\* WorkflowStateManager.deleteContext(conversationId): redis.del(key)
deleteContext(ctx) == NoCtx

\* [ACTION_MESSAGE M]
WfMessage ==
    [nodes |-> << Node("M", "ACTION_MESSAGE", "welcome", Undef, Undef, Undef) >>,
     edges |-> << >>]

Unfinished == {c \in DOMAIN calls : calls[c].pc # "done"}

StopInit ==
    /\ lockKey = NoToken
    /\ lcalls = <<>>
    /\ calls = <<>>
    /\ bursts = <<>>
    /\ dispatched = [n \in NodeIds |-> 0]
    /\ sent = [n \in NodeIds |-> 0]
    /\ workflow \in {WfWaitThenMessage, WfMessage}
    /\ store = NoCtx
    /\ execs = <<>>
    /\ route = Idle
    /\ guard = Idle
    /\ run = Idle
    /\ api = Idle
    /\ breaker = Idle
    /\ stops = [returned |-> 0, calls |-> 0, pending |-> 0, chains |-> 0, held |-> FALSE]

\* stopWorkflowForConversation(conversationId): await deleteContext(conversationId)
Stop ==
    /\ stops.returned < MaxStops
    /\ store' = deleteContext(store)
    /\ stops' = [returned |-> stops.returned + 1,
                 calls |-> Len(calls),
                 pending |-> Cardinality(Unfinished),
                 chains |-> Len(bursts),
                 held |-> lockKey # NoToken]
    /\ UNCHANGED <<coreVarsButStore, route, guard, run, api, breaker>>

StopNext ==
    \/ StartCall("init", Undef)
    \/ StartCall("msg", "42")
    \/ Stop
    \/ \E c \in DOMAIN calls : InitCheck(c)
    \/ \E c \in DOMAIN calls : InitCreate(c)
    \/ \E c \in DOMAIN calls : InitSave(c)
    \/ \E c \in DOMAIN calls : MsgAcquire(c)
    \/ \E c \in DOMAIN calls : MsgBusy(c)
    \/ \E c \in DOMAIN calls : MsgGet(c)
    \/ \E c \in DOMAIN calls : MsgSave(c)
    \/ \E c \in DOMAIN calls : MsgRelease(c)
    \/ EngineLockExpire
    \/ \E b \in DOMAIN bursts : BurstDispatch(b, "ok")
    \/ \E b \in DOMAIN bursts : BurstSave(b)
    \/ \E b \in DOMAIN bursts : BurstMarkCompleted(b)
    \/ \E b \in DOMAIN bursts : BurstDelete(b)

StopSpec == StopInit /\ [][StopNext]_vars

\* -------------------------------------------------------------- EndSpec
\* handleMessageInWorkflow calls for a conversation whose run is suspended at
\* the wait node of [wait for input -> send message], with a sendMessageToUser
\* that can fail: the chains end the execution as FAILED.
EndInit ==
    /\ lockKey = NoToken
    /\ lcalls = <<>>
    /\ calls = <<>>
    /\ bursts = <<>>
    /\ dispatched = [n \in NodeIds |-> 0]
    /\ sent = [n \in NodeIds |-> 0]
    /\ workflow = WfWaitThenMessage
    /\ \E v \in Validations : store = SuspendedAt(v)
    /\ execs = <<"RUNNING">>
    /\ route = Idle
    /\ guard = Idle
    /\ run = Idle
    /\ MoreIdle

\* the dispatch when sendMessageToUser can reject
BurstDispatchUnreliable(b, outcome) ==
    BurstExecute(b, outcome, [n \in NodeIds |-> OutcomesUnreliable(FindNode(workflow, n))])

EndNext ==
    \/ \E msg \in Messages : StartCall("msg", msg)
    \/ \E c \in DOMAIN calls : MsgAcquire(c)
    \/ \E c \in DOMAIN calls : MsgBusy(c)
    \/ \E c \in DOMAIN calls : MsgGet(c)
    \/ \E c \in DOMAIN calls : MsgSave(c)
    \/ \E c \in DOMAIN calls : MsgRelease(c)
    \/ EngineLockExpire
    \/ \E b \in DOMAIN bursts : \E o \in {"ok", "throw"} : BurstDispatchUnreliable(b, o)
    \/ \E b \in DOMAIN bursts : BurstSave(b)
    \/ \E b \in DOMAIN bursts : BurstMarkFailed(b)

EndSpec == EndInit /\ [][EndNext]_vars

\* ----------------------------------------------------------- BreakerSpec
\* CircuitBreaker (lib/circuitBreaker): state, failures and successes are its
\* fields; waiting says that Date.now() < nextAttemptTime.  The execute calls
\* run concurrently: calls holds, for each, where it is ("fn": awaiting fn(),
\* "done"), the state of the breaker when fn was invoked and its result.
\* streak counts the failures since the latest success; probes counts the
\* successes, since the breaker last became HALF_OPEN, of calls whose fn was
\* invoked in HALF_OPEN.
NewBreaker(failureThreshold, successThreshold) ==
    [failureThreshold |-> failureThreshold, successThreshold |-> successThreshold,
     state |-> "CLOSED", failures |-> 0, successes |-> 0, waiting |-> FALSE,
     calls |-> <<>>, streak |-> 0, probes |-> 0]

\* openCircuit(): OPEN until Date.now() + timeout
openCircuit(cb) == [cb EXCEPT !.state = "OPEN", !.waiting = TRUE]

\* Mutant: a success leaves the failure count as it is.
onSuccess_KeepsFailures(cb) ==
    IF cb.state = "HALF_OPEN"
    THEN IF cb.successes + 1 >= cb.successThreshold
         THEN [cb EXCEPT !.state = "CLOSED", !.successes = 0]
         ELSE [cb EXCEPT !.successes = @ + 1]
    ELSE cb

\* onSuccess()
onSuccess(cb) ==
    IF cb.state = "HALF_OPEN"
    THEN IF cb.successes + 1 >= cb.successThreshold
         THEN [cb EXCEPT !.failures = 0, !.state = "CLOSED", !.successes = 0]
         ELSE [cb EXCEPT !.failures = 0, !.successes = @ + 1]
    ELSE [cb EXCEPT !.failures = 0]

\* onFailure()
onFailure(cb) ==
    IF cb.state = "HALF_OPEN" \/ cb.failures + 1 >= cb.failureThreshold
    THEN openCircuit([cb EXCEPT !.failures = @ + 1])
    ELSE [cb EXCEPT !.failures = @ + 1]

\* execute(fn) up to `await fn()`: "rejected" (CircuitBreakerError) while OPEN
\* and waiting, else the breaker as fn is invoked
Admit(cb) ==
    IF cb.state = "OPEN"
    THEN IF cb.waiting
         THEN [cb |-> cb, admitted |-> FALSE]
         ELSE [cb |-> [cb EXCEPT !.state = "HALF_OPEN", !.successes = 0],
               admitted |-> TRUE]
    ELSE [cb |-> cb, admitted |-> TRUE]

BreakerInit ==
    /\ CoreIdle
    /\ route = Idle
    /\ guard = Idle
    /\ run = Idle
    /\ api = Idle
    /\ stops = Idle
    /\ \E f \in 1..MaxThreshold : \E s \in 1..MaxThreshold :
          breaker = NewBreaker(f, s)

\* a caller calls execute(fn)
BreakerExecute ==
    /\ Len(breaker.calls) < MaxBreakerCalls
    /\ LET a == Admit(breaker) IN
       breaker' = [a.cb EXCEPT
          !.calls = Append(@, IF a.admitted
                              THEN [pc |-> "fn", invokedIn |-> a.cb.state, result |-> "none"]
                              ELSE [pc |-> "done", invokedIn |-> "none",
                                    result |-> "rejected"]),
          !.probes = IF breaker.state = "OPEN" /\ a.admitted THEN 0 ELSE @]
    /\ UNCHANGED <<coreVars, route, guard, run, api, stops>>

\* fn() of call k resolves (onSuccess) or rejects (onFailure)
BreakerSettle(k, ok) ==
    /\ breaker.calls[k].pc = "fn"
    /\ LET cb == IF ok THEN onSuccess(breaker) ELSE onFailure(breaker) IN
       breaker' = [cb EXCEPT
          !.calls[k] = [@ EXCEPT !.pc = "done",
                                 !.result = IF ok THEN "ok" ELSE "error"],
          !.streak = IF ok THEN 0 ELSE @ + 1,
          !.probes = IF ok /\ breaker.state = "HALF_OPEN"
                         /\ breaker.calls[k].invokedIn = "HALF_OPEN"
                     THEN @ + 1 ELSE @]
    /\ UNCHANGED <<coreVars, route, guard, run, api, stops>>

\* the clock reaches nextAttemptTime
BreakerClock ==
    /\ breaker.waiting
    /\ breaker' = [breaker EXCEPT !.waiting = FALSE]
    /\ UNCHANGED <<coreVars, route, guard, run, api, stops>>

BreakerNext ==
    \/ BreakerExecute
    \/ \E k \in DOMAIN breaker.calls : \E ok \in BOOLEAN : BreakerSettle(k, ok)
    \/ BreakerClock

BreakerSpec == BreakerInit /\ [][BreakerNext]_vars

\* ---------------------------------------------------- claims on the engine
Terminal == {"COMPLETED", "FAILED"}

\* C1 (as claimed): bursts of one conversation are totally ordered by the
\* conversation lock: no two of them dispatch nodes or write the context
\* concurrently.
C1_BurstsTotallyOrdered ==
    \A a, b \in DOMAIN bursts : a = b

\* C2 (as claimed): under concurrent initialize calls two different
\* executionIds are never being driven for the same conversation.
C2_SingleExecutionDriven ==
    \A a, b \in DOMAIN bursts :
        bursts[a].ctx.executionId = bursts[b].ctx.executionId

\* C3 (as claimed): once the execution of the persisted context is COMPLETED
\* or FAILED the context is deleted: it is present only while the burst that
\* marked the execution is about to delete it.
C3_TerminalDeletesContext ==
    (store.present /\ execs[store.executionId] \in Terminal)
    => \E b \in DOMAIN bursts :
          /\ bursts[b].pc = "delete"
          /\ bursts[b].ctx.executionId = store.executionId

\* C4 (as claimed): while the persisted context has waitingForInput=true no
\* node is dispatched for the conversation.
C4_NoDispatchWhileWaiting ==
    [][(store.present /\ store.waitingForInput) => dispatched' = dispatched]_vars

\* a message call whose callback found the context waiting and whose input
\* passed validation
Qualifying(call) ==
    call.found = "waiting" /\ call.result \notin {"validation_error", "threw"}

\* C5: a handleMessageInWorkflow call never starts more than one burst, and
\* when its callback has returned it has started exactly one if the message
\* was qualifying and none otherwise, whatever the number of acquisition
\* attempts and whatever other calls are in progress.
C5_OneResumptionPerQualifyingMessage ==
    \A c \in DOMAIN calls :
        calls[c].kind = "msg" =>
            /\ calls[c].spawned <= 1
            /\ calls[c].pc = "release" =>
                  (calls[c].spawned = 1 <=> Qualifying(calls[c]))
            /\ calls[c].pc \in {"acquire", "busy", "get"} => calls[c].spawned = 0

\* C5 witness: a qualifying message whose lock acquisition was retried has
\* started its one burst while another message call is in progress.
C5_Witness ==
    \E c, d \in DOMAIN calls :
        /\ c # d
        /\ calls[c].kind = "msg" /\ calls[c].pc = "release"
        /\ calls[c].i >= 1
        /\ Qualifying(calls[c]) /\ calls[c].spawned = 1
        /\ calls[d].kind = "msg" /\ calls[d].pc # "done"

\* C6: every step of a call whose input failed validation leaves the persisted
\* context, the executions and the bursts as they are and dispatches nothing;
\* the step that validates answers with the validation error while the context
\* still waits for input.
C6_InvalidInputLeavesContext ==
    [][\A c \in DOMAIN calls :
          (calls'[c].result = "validation_error" /\ calls'[c] # calls[c])
          => /\ UNCHANGED <<store, execs, bursts, dispatched, sent>>
             /\ calls[c].pc = "get" =>
                   /\ calls'[c].reply # Undef
                   /\ calls'[c].pc = "release"
                   /\ store.present /\ store.waitingForInput
                   /\ store.expectedInputValidation # NoValidation]_vars

\* C6 witness: the callback has returned the validation error and the context
\* still waits at the same node with its validation.
C6_Witness ==
    \E c \in DOMAIN calls :
        /\ calls[c].pc = "release" /\ calls[c].result = "validation_error"
        /\ calls[c].reply = "Please enter a valid email address"
        /\ store = SuspendedAt(Validation("email", Undef, Undef))
        /\ execs[store.executionId] = "RUNNING"
        /\ bursts = <<>>

\* C7: every step of a handleMessageInWorkflow call that found no context
\* leaves the store, the executions and the bursts as they are and dispatches
\* nothing; the call returns null.
C7_NoContextIsNoOp ==
    [][\A c \in DOMAIN calls :
          (/\ calls[c].kind = "msg"
           /\ calls'[c] # calls[c]
           /\ (calls[c].found = "none" \/ calls'[c].found = "none"))
          => /\ UNCHANGED <<store, execs, bursts, dispatched, sent>>
             /\ calls'[c].result = "null"
             /\ calls'[c].pc \in {"release", "done"}]_vars

\* C7 witness: the callback found no context and returned null; there is still
\* no context.
C7_Witness ==
    \E c \in DOMAIN calls :
        /\ calls[c].kind = "msg" /\ calls[c].pc = "release"
        /\ calls[c].found = "none" /\ calls[c].result = "null"
        /\ ~store.present

\* no edge out of nodeId has an absent condition or one that holds of variables
NoEdgeTaken(wf, nodeId, variables) ==
    \A i \in DOMAIN wf.edges :
        wf.edges[i].sourceNodeId = nodeId
        => /\ wf.edges[i].condition # NoCond
           /\ ~evaluateCondition(wf.edges[i].condition, variables)

\* the step is one of chain b alone: no chain was started or has settled
StepOfBurst(b) ==
    /\ Len(bursts') = Len(bursts)
    /\ bursts'[b] # bursts[b]

C16_CycleAborted ==
    \A n \in NodeIds : dispatched[n] <= DefaultMaxVisitsPerNode

\* C19 (as claimed): once a node of an unknown type has been dispatched the
\* run does not go on: its successor is not dispatched and the execution is
\* not COMPLETED.
C19_UnknownTypeFatal ==
    (workflow = WfUnknown /\ dispatched["U"] > 0)
    => /\ dispatched["M"] = 0
       /\ \A e \in DOMAIN execs : execs[e] # "COMPLETED"

\* C20 (as claimed): a chain goes past the condition node C of
\* [A -> C -> M] only when the predicate of C was true.
C20_FalseConditionStops ==
    workflow = WfClassify
    => \A b \in DOMAIN bursts :
          bursts[b].ctx.currentNodeId = "M"
          => bursts[b].ctx.variables["conditionMet"] = "true"

\* ---------------------------------------------------- claims on the router
\* edge i of the routed workflow leaves the current node and its condition is
\* absent or evaluates true
RouteMatches(i) ==
    /\ route.wf.edges[i].sourceNodeId = route.currentNode.id
    /\ \/ route.wf.edges[i].condition = NoCond
       \/ evaluateCondition(route.wf.edges[i].condition, route.variables)

\* C13: every findNextNode call on the same node, variables and edge order
\* returns the target of the first outgoing edge, in definition order, whose
\* condition is absent or true (so never the target of a later edge, and one
\* node only), and null when no outgoing edge matches.
C13_FirstMatchChain ==
    \A r \in DOMAIN route.results :
        LET nextNodeId == route.results[r]
            matching == {i \in DOMAIN route.wf.edges : RouteMatches(i)}
        IN IF matching = {}
           THEN nextNodeId = Undef
           ELSE \E i \in matching :
                   /\ \A j \in matching : i <= j
                   /\ nextNodeId = route.wf.edges[i].targetNodeId

\* C13 witness: the first outgoing edge's condition is false, the second and
\* the third match, and both calls returned the target of the second.
C13_Witness ==
    /\ route # Idle
    /\ Len(route.wf.edges) = 3
    /\ \A i \in 1..3 : route.wf.edges[i].sourceNodeId = "N"
    /\ route.wf.edges[1].condition # NoCond
    /\ ~RouteMatches(1) /\ RouteMatches(2) /\ RouteMatches(3)
    /\ route.results = <<"T2", "T2">>

\* ---------------------------------------------------- claims on executeNode's retries
\* the retry loop of N is over and every attempt failed
Exhausted ==
    /\ run.pc \in {"route", "complete", "failed", "done"}
    /\ run.failures = run.attempts

C18_ExhaustedContinuesOrFails ==
    Exhausted =>
        IF run.config.continueOnError
        THEN /\ run.nodeResult = [success |-> "false", shouldContinue |-> "true"]
             /\ run.variables = "initial"
             /\ run.pc \in {"route", "complete", "done"}
             /\ run.pc \in {"complete", "done"} => run.successors = 1
             /\ run.status = IF run.pc = "done" THEN "COMPLETED" ELSE "RUNNING"
        ELSE /\ run.pc \in {"failed", "done"}
             /\ run.successors = 0
             /\ run.variables = "initial"
             /\ run.status = IF run.pc = "done" THEN "FAILED" ELSE "RUNNING"

\* C18 witness: three failed attempts of a node with continueOnError; the
\* successor has been executed and the run is COMPLETED.
C18_Witness ==
    /\ run # Idle
    /\ run.config.continueOnError /\ run.config.retryOnError /\ run.config.known
    /\ Exhausted /\ run.attempts = 3
    /\ run.successors = 1
    /\ run.pc = "done" /\ run.status = "COMPLETED"

\* ---------------------------------------------------- claims on the loop guard
\* C15 (as claimed): a visitNode(n) call raises exactly when it is a visit of
\* n after the first maxVisitsPerNode ones, and succeeds otherwise.
C15_ThresholdExact ==
    [][\A n \in GuardNodes :
          guard'.calls[n] = guard.calls[n] + 1
          => (guard'.last # "ok" <=> guard'.calls[n] > guard.maxVisitsPerNode)]_vars

\* C15 (amended): for maxVisitsPerNode >= 1, as long as neither the time limit
\* nor the node limit has raised, a visitNode(n) call succeeds on each of the
\* first maxVisitsPerNode visits of n and raises the loop error on every later
\* one, the count of n being the number of its visits.
C15_ThresholdExactUnlessPreempted ==
    [][\A n \in GuardNodes :
          (/\ guard'.calls[n] = guard.calls[n] + 1
           /\ guard.maxVisitsPerNode >= 1
           /\ ~guard'.preempted)
          => /\ guard'.visits[n] = guard'.calls[n]
             /\ guard'.calls[n] <= guard.maxVisitsPerNode => guard'.last = "ok"
             /\ guard'.calls[n] > guard.maxVisitsPerNode => guard'.last = "loop"]_vars

\* C15 witness: the cycle A, B, A, B, ... under the defaults: visit 11 of A
\* has just raised the loop error after ten visits of each node.
C15_Witness ==
    /\ guard # Idle
    /\ guard.maxVisitsPerNode = DefaultMaxVisitsPerNode
    /\ guard.maxTotalNodes = DefaultMaxTotalNodes
    /\ guard.calls = [n \in GuardNodes |-> IF n = "A" THEN 11 ELSE 10]
    /\ guard.visits = guard.calls
    /\ guard.last = "loop"
    /\ ~guard.preempted

\* ---------------------------------------------------- claims on RedisLock

\* C8: only the owner may release: a release() by a call whose token is not
\* the value of the key (its lock lapsed, another call may hold the key now)
\* leaves the key as it is.
C8_OnlyOwnerReleases ==
    [][\A k \in DOMAIN lcalls :
          (lcalls[k].pc = "release" /\ lcalls'[k].pc = "done"
              /\ lockKey # LockValue(k))
          => lockKey' = lockKey]_vars

\* C8 witness: call a's lock lapsed, call b acquired the key, a has released
\* and b still holds the key inside fn.
C8_Witness ==
    \E a, b \in DOMAIN lcalls :
        /\ a # b
        /\ lcalls[a].pc = "done" /\ lcalls[a].acquired
        /\ lcalls[a].released = "not_owned"
        /\ lcalls[b].pc = "fn"
        /\ lockKey = LockValue(b)

\* C9 (as claimed): two withLock callbacks of one resource never execute at
\* the same time.
C9_FnMutualExclusion ==
    \A a, b \in DOMAIN lcalls :
        (lcalls[a].pc = "fn" /\ lcalls[b].pc = "fn") => a = b

C11_BoundedAttemptsThenBusy ==
    \A k \in DOMAIN lcalls :
        LET call == lcalls[k] IN
        /\ call.attempts <= DefaultRetries
        /\ Len(call.waits) < DefaultRetries
        /\ \A m, n \in DOMAIN call.waits : m <= n => call.waits[m] <= call.waits[n]
        /\ call.fnCalls <= 1
        /\ call.fnCalls = 1 => call.acquired
        /\ call.pc = "fn" => call.acquired /\ call.fnCalls = 0
        /\ (call.pc \in {"release", "done"} /\ call.acquired) => call.fnCalls = 1
        /\ call.outcome = "busy" =>
              /\ call.attempts = DefaultRetries
              /\ ~call.acquired
              /\ call.fnCalls = 0
              /\ call.released = "none"

\* C11 witness: one call used up its attempts and threw without running fn,
\* after waiting 100 ms and then 200 ms; another succeeded on its second
\* attempt and ran fn once.
C11_Witness ==
    \E a, b \in DOMAIN lcalls :
        /\ lcalls[a].pc = "done" /\ lcalls[a].outcome = "busy"
        /\ lcalls[a].attempts = DefaultRetries
        /\ lcalls[a].waits = <<DefaultWaitMs, 2 * DefaultWaitMs>>
        /\ lcalls[a].fnCalls = 0
        /\ lcalls[b].attempts = 2 /\ lcalls[b].acquired /\ lcalls[b].fnCalls = 1

\* C12: acquire() answers true exactly when the store answered OK to the
\* set-if-absent, which wrote the caller's token into an absent key; when the
\* key is held or the store call fails it answers false and leaves the key
\* as it is.
C12_AcquireExclusiveFailsClosed ==
    [][\A k \in DOMAIN lcalls :
          (lcalls[k].pc = "acquire" /\ lcalls'[k] # lcalls[k])
          => LET returnedTrue == lcalls'[k].pc = "fn" IN
             /\ lcalls'[k].last \in {"OK", "null", "error"}
             /\ returnedTrue <=> lcalls'[k].last = "OK"
             /\ returnedTrue <=> lcalls'[k].acquired
             /\ returnedTrue => (lockKey = NoToken /\ lockKey' = LockValue(k))
             /\ ~returnedTrue => lockKey' = lockKey
             /\ lcalls'[k].last = "null" => lockKey # NoToken
             /\ lockKey # NoToken => ~returnedTrue]_vars

\* C12 witness: with the key absent the store failed call a's acquire, which
\* answered false and left the key absent; call b then acquired it.
C12_Witness ==
    \E a, b \in DOMAIN lcalls :
        /\ lcalls[a].last = "error" /\ ~lcalls[a].acquired
        /\ lcalls[a].pc = "acquire"
        /\ lcalls[b].last = "OK" /\ lcalls[b].pc = "fn"
        /\ lockKey = LockValue(b)

\* ------------------------------------------------------ claims on ApiSpec
\* the loopback hosts (localhost, 127.0.0.0/8, ::1) and the private networks
\* (10.0.0.0/8, 172.16.0.0/12, 192.168.0.0/16)
InternalHost(h) ==
    \/ h.labels = <<"localhost">>
    \/ h.kind = "ipv6" /\ h.labels = <<"[::1]">>
    \/ h.kind = "ipv4" /\ h.labels[1] \in {"127", "10"}
    \/ h.kind = "ipv4" /\ h.labels[1] = "172" /\ h.labels[2] \in Private172
    \/ h.kind = "ipv4" /\ h.labels[1] = "192" /\ h.labels[2] = "168"

\* C21 (as claimed): no request is ever issued to a loopback or private host,
\* and an API call whose interpolated URL targets such a host ends as a node
\* error with nothing merged into the variables.
C21_InternalHostNeverRequested ==
    api # Idle =>
        /\ \A i \in DOMAIN api.requests : ~InternalHost(api.requests[i].host)
        /\ (api.pc \in {"done", "failed"} /\ InternalHost(api.url.host))
              => (api.pc = "failed" /\ ~api.merged)

\* ----------------------------------------------------- claims on StopSpec
\* no initialize or handleMessageInWorkflow call has started since the latest
\* stop returned
NoCallSinceStop == stops.returned > 0 /\ Len(calls) = stops.calls

C23_NoEntryFailsFast ==
    \A c \in DOMAIN calls :
        (calls[c].kind = "init" /\ calls[c].result = "threw")
        => /\ ~store.present
           /\ \A n \in NodeIds : dispatched[n] = 0
           /\ \A e \in DOMAIN execs : execs[e] # "RUNNING"

\* --------------------------------------------- claims on resume and end
\* C24 (as claimed): a chain resumed by an inbound message routes out of the
\* node the run was suspended at: it never dispatches a wait-for-input node
\* with that message already in its variables.
C24_ResumeAdvancesPastWait ==
    \A b \in DOMAIN bursts :
        (bursts[b].pc = "dispatch" /\ bursts[b].ctx.variables["lastUserMessage"] # Undef)
        => FindNode(workflow, bursts[b].ctx.currentNodeId).type # "ACTION_WAIT_FOR_INPUT"

\* the chains that take the step: a dispatch changes the chain in place
Dispatching(e) ==
    \E b \in DOMAIN bursts :
        /\ bursts[b].pc = "dispatch"
        /\ bursts[b].ctx.executionId = e
        /\ dispatched' # dispatched
        /\ Len(bursts') = Len(bursts)
        /\ bursts'[b] # bursts[b]

\* C25 (as claimed): once an execution is COMPLETED or FAILED its status does
\* not change, no node is dispatched for it and its context is not written.
C25_TerminalAbsorbing ==
    [][ \A e \in DOMAIN execs :
          execs[e] \in Terminal =>
             /\ execs'[e] = execs[e]
             /\ ~Dispatching(e)
             /\ (store' # store /\ store'.present) => store'.executionId # e ]_vars

\* ---------------------------------------------------- claims on GuardSpec
\* no visitNode call has raised so far
NoRaiseYet ==
    \A n \in GuardNodes :
        guard.visits[n] = guard.calls[n] /\ guard.calls[n] <= guard.maxVisitsPerNode

\* the dispatches of the run, the one being made included
TotalDispatches(g) == g.calls["A"] + g.calls["B"]

\* C26 (as claimed): in a run that has not been aborted and is within its
\* time limit, a visitNode call raises the node-limit error exactly when the
\* number of dispatches, this one and repeat visits included, exceeds
\* maxTotalNodes.
C26_NodeLimitCountsDispatches ==
    [][\A n \in GuardNodes :
          (guard'.calls[n] = guard.calls[n] + 1 /\ NoRaiseYet /\ ~guard.late)
          => (guard'.last = "node_limit"
                <=> TotalDispatches(guard') > guard.maxTotalNodes)]_vars

\* ------------------------------------------------------ claims on RunSpec
\* C27 (as claimed): a retry attempt, and the continuation of the run after
\* the last attempt, starts only when the executor of every attempt that
\* timed out has stopped.
C27_OneAttemptExecuting ==
    [][(run'.attempts > run.attempts \/ (run.pc # "attempt" /\ run'.pc # run.pc))
          => run.pending = {}]_vars

Arrives == Len(breaker'.calls) = Len(breaker.calls) + 1

\* the step is the settlement of call k
Settles(k) == breaker.calls[k].pc = "fn" /\ breaker'.calls[k].pc = "done"

\* C29: while the breaker is OPEN and its timeout has not elapsed, an execute
\* call is rejected without invoking fn and the breaker is left as it is; the
\* breaker goes from CLOSED to OPEN on a failure that brings the number of
\* failures since the latest success to failureThreshold, and on nothing else.
C29_OpenRejectsAndOpensAtThreshold ==
    [][/\ (Arrives /\ breaker.state = "OPEN" /\ breaker.waiting)
           => /\ breaker'.calls[Len(breaker'.calls)].result = "rejected"
              /\ breaker'.calls[Len(breaker'.calls)].pc = "done"
              /\ breaker'.state = "OPEN" /\ breaker'.waiting
              /\ breaker'.failures = breaker.failures
       /\ (breaker.state = "CLOSED" /\ breaker'.state = "OPEN")
           => /\ \E k \in DOMAIN breaker.calls :
                    Settles(k) /\ breaker'.calls[k].result = "error"
              /\ breaker'.streak = breaker.failureThreshold
       /\ (breaker.state = "CLOSED" /\ breaker'.streak = breaker.failureThreshold
              /\ breaker'.streak # breaker.streak)
           => breaker'.state = "OPEN"]_vars

\* C29 witness: two failures in a row have opened a breaker of threshold 2,
\* and a call that arrived before the timeout elapsed has been rejected.
C29_Witness ==
    /\ breaker # Idle
    /\ breaker.failureThreshold = 2
    /\ breaker.state = "OPEN" /\ breaker.waiting
    /\ \E i, j, k \in DOMAIN breaker.calls :
          /\ i # j
          /\ breaker.calls[i].result = "error" /\ breaker.calls[j].result = "error"
          /\ breaker.calls[k].result = "rejected"

\* C30 (as claimed): the first execute call after the open timeout moves the
\* breaker to HALF_OPEN and invokes fn; the breaker goes from HALF_OPEN to
\* CLOSED only when successThreshold calls invoked in HALF_OPEN have succeeded
\* since; a failure observed in HALF_OPEN reopens it at once.
C30_HalfOpenRecovery ==
    [][/\ (Arrives /\ breaker.state = "OPEN" /\ ~breaker.waiting)
           => /\ breaker'.state = "HALF_OPEN"
              /\ breaker'.calls[Len(breaker'.calls)].pc = "fn"
       /\ (breaker.state = "HALF_OPEN" /\ breaker'.state = "CLOSED")
           => breaker'.probes >= breaker.successThreshold
       /\ \A k \in DOMAIN breaker.calls :
             (Settles(k) /\ breaker'.calls[k].result = "error"
                /\ breaker.state = "HALF_OPEN")
             => breaker'.state = "OPEN"]_vars

====
